---- MODULE Spec2Model ----
(***************************************************************************)
(* Hotelling.py: two incumbent firms on the line [0,1], a population of    *)
(* consumers, and a Monte Carlo search for the position and price of a     *)
(* third entrant.                                                          *)
(*                                                                         *)
(* Numbers.  Positions are the grid points k/PosGrid, written k (so the    *)
(* line [0,1] is 0..PosGrid and "out of range" is k < 0 or k > PosGrid).   *)
(* Prices, transport cost, counts and profits are integers.  A delivered   *)
(* cost price + distance*transport_cost is kept multiplied by PosGrid,     *)
(* which changes neither the order of two costs nor their ties.            *)
(* Python lists are sequences; Python's 0-based indexes are kept, and      *)
(* ListGet(s, i) reads s[i].                                               *)
(*                                                                         *)
(* data_fetcher.py: fetch_multiple_months walks [start_date, end_date] in  *)
(* chunks of at most 30 days.  A datetime is a number of ticks,            *)
(* TicksPerDay to the day; strftime('%Y%m%d') keeps the day only.          *)
(***************************************************************************)
EXTENDS Integers, Sequences, FiniteSets

\* ---------------------------------------------------------------- bounds
PosGrid == 1
MaxConsumers == 2
MaxSims == 2
MaxFirms == 3
TicksPerDay == 2
MaxSpanDays == 65

\* ------------------------------------------------------ program constants
NUM_FIRMS == 2
PRICE_LOW == 5
PRICE_HIGH == 20
ENTRANT_INDEX == 2
CHUNK_DAYS == 30
STEP_DAYS == 1

VARIABLES
    firm_positions,     \* global / parameter existing_positions, firm_positions
    firm_prices,        \* global / parameter existing_prices, firm_prices
    transport_cost,
    num_simulations,
    num_consumers,
    consumers,
    best_profit,        \* locals of monte_carlo_optimization
    best_position,
    best_price,
    new_position,
    new_price,
    new_firm_profit,
    simulation,         \* number of values range(num_simulations) has yielded
    optimal,            \* <<optimal_position, optimal_price, optimal_profit>>
    customers_per_firm,
    firm_profit,
    firm_customers,     \* locals of simulate_market
    consumer_no,        \* number of consumers the for loop has consumed
    chosen_firm,
    trials,             \* history: <<new_position, new_price, new_firm_profit>> per trial
    start_date,         \* parameters and locals of fetch_multiple_months
    end_date,
    current_start,
    current_end,
    chunk_num,
    all_data,           \* the chunk numbers whose DataFrame was appended
    df,                 \* what fetch_multiple_months returned (line 189)
    requests,           \* history: one record per call of fetch_caiso_prices
    pc

vars == <<firm_positions, firm_prices, transport_cost, num_simulations,
          num_consumers, consumers, best_profit, best_position, best_price,
          new_position, new_price, new_firm_profit, simulation, optimal,
          customers_per_firm, firm_profit, firm_customers, consumer_no,
          chosen_firm, trials, start_date, end_date, current_start,
          current_end, chunk_num, all_data, df, requests, pc>>

inputVars == <<firm_positions, firm_prices, transport_cost, num_simulations,
               num_consumers, consumers>>
optVars == <<best_profit, best_position, best_price, new_position, new_price,
             new_firm_profit, simulation, optimal, trials>>
reportVars == <<customers_per_firm, firm_profit>>
simVars == <<firm_customers, consumer_no, chosen_firm>>
fetchVars == <<start_date, end_date, current_start, current_end, chunk_num,
               all_data, df, requests>>

\* fetch_multiple_months has not been called
NoReturn == [kind |-> "pending", chunks |-> <<>>]

FetchNotCalled ==
    /\ start_date = 0
    /\ end_date = 0
    /\ current_start = 0
    /\ current_end = 0
    /\ chunk_num = 0
    /\ all_data = <<>>
    /\ df = NoReturn
    /\ requests = <<>>

\* ------------------------------------------------------------ list helpers
ListGet(s, i) == s[i + 1]

Abs(x) == IF x < 0 THEN 0 - x ELSE x

RECURSIVE MinOf(_)
MinOf(s) ==
    IF Len(s) = 1 THEN s[1]
    ELSE LET m == MinOf(Tail(s)) IN IF s[1] <= m THEN s[1] ELSE m

\* list.index(v): the 0-based index of the first element equal to v
IndexOf(s, v) ==
    (CHOOSE i \in 1..Len(s) : s[i] = v /\ \A j \in 1..(i - 1) : s[j] # v) - 1

\* variant of IndexOf: the index of the last element equal to v
LastIndexOf(s, v) ==
    (CHOOSE i \in 1..Len(s) : s[i] = v /\ \A j \in (i + 1)..Len(s) : s[j] # v) - 1

\* variant of ListConcat, a += b: the left operand itself is extended
ListExtend(a, b) == [result |-> a \o b, left |-> a \o b]

\* a + b on lists: a new list; the left operand is left as it was
ListConcat(a, b) == [result |-> a \o b, left |-> a]

\* --------------------------------------------------------- consumer_choice
TotalCost(consumer_position, position, price, tc) ==
    price * PosGrid + Abs(consumer_position - position) * tc

Costs(consumer_position, positions, prices, tc) ==
    [i \in 1..Len(positions) |->
        TotalCost(consumer_position, positions[i], prices[i], tc)]

\* variant of consumer_choice: a tie goes to the last firm at the minimum
consumer_choice_last(consumer_position, positions, prices, tc) ==
    LET costs == Costs(consumer_position, positions, prices, tc)
    IN  LastIndexOf(costs, MinOf(costs))

consumer_choice(consumer_position, positions, prices, tc) ==
    LET costs == Costs(consumer_position, positions, prices, tc)
    IN  IndexOf(costs, MinOf(costs))

\* --------------------------------------------------------- simulate_market
ZeroCounts(positions) == [i \in 1..Len(positions) |-> 0]

\* variant of Increment: counts[i] = 1 in place of counts[i] += 1
SetOne(counts, i) == [counts EXCEPT ![i + 1] = 1]

Increment(counts, i) == [counts EXCEPT ![i + 1] = @ + 1]

RECURSIVE SimulateFrom(_, _, _, _, _)
SimulateFrom(counts, cs, positions, prices, tc) ==
    IF cs = <<>> THEN counts
    ELSE SimulateFrom(
            Increment(counts, consumer_choice(Head(cs), positions, prices, tc)),
            Tail(cs), positions, prices, tc)

simulate_market(cs, positions, prices, tc) ==
    SimulateFrom(ZeroCounts(positions), cs, positions, prices, tc)

\* --------------------------------------------------- calculate_firm_profit
calculate_firm_profit(positions, prices, cs, tc) ==
    LET cpf == simulate_market(cs, positions, prices, tc)
    IN  [i \in 1..Len(positions) |-> cpf[i] * prices[i]]

\* ------------------------- monte_carlo_optimization: initial best, loop, test
\* variant of BestProfitInit: a sentinel below every profit
BestProfitBelowZero == 0 - 1

\* line 83
BestProfitInit == 0

\* variant of HasNextTrial: the loop body runs before the first test
TrialAtLeastOnce(done, n) == done < n \/ done = 0

\* range(num_simulations) yields another value
HasNextTrial(done, n) == done < n

\* variants of Improves: no test at all, and >= in place of >
ImprovesAlways(profit, best) == TRUE

ImprovesOrTies(profit, best) == profit >= best

\* the replacement test at line 97
Improves(profit, best) == profit > best

\* ------------------------------------------------------- values drawn
\* what input() may hand to float()/int(): ok = FALSE is text that raises
\* ValueError, otherwise val is the number read
BadToken == [ok |-> FALSE, val |-> 0]

PositionTokens == {[ok |-> TRUE, val |-> v] : v \in -1..(PosGrid + 1)} \cup {BadToken}

PriceTokens == {[ok |-> TRUE, val |-> v] : v \in {-1, PRICE_LOW, PRICE_LOW + 1}} \cup {BadToken}

TransportTokens == {[ok |-> TRUE, val |-> v] : v \in {-1, 1, 16}} \cup {BadToken}

SimulationTokens == {[ok |-> TRUE, val |-> v] : v \in -1..MaxSims} \cup {BadToken}

ConsumerTokens == {[ok |-> TRUE, val |-> v] : v \in -1..MaxConsumers} \cup {BadToken}

\* random.uniform(0, 1) on the grid, random.uniform(5, 20) at its two ends
UniformPositions == 0..PosGrid

UniformPrices == {PRICE_LOW, PRICE_HIGH}

SeqsOfLen(S, n) == [1..n -> S]

\* ------------------------------------------------- module input (lines 4-41)
Init ==
    /\ firm_positions = <<>>
    /\ firm_prices = <<>>
    /\ transport_cost = 0
    /\ num_simulations = 0
    /\ num_consumers = 0
    /\ consumers = <<>>
    /\ best_profit = BestProfitInit
    /\ best_position = 0
    /\ best_price = 0
    /\ new_position = 0
    /\ new_price = 0
    /\ new_firm_profit = 0
    /\ simulation = 0
    /\ optimal = <<>>
    /\ customers_per_firm = <<>>
    /\ firm_profit = <<>>
    /\ firm_customers = <<>>
    /\ consumer_no = 0
    /\ chosen_firm = 0
    /\ trials = <<>>
    /\ FetchNotCalled
    /\ pc = "input_positions"

InputPosition ==
    /\ pc = "input_positions"
    /\ \E tok \in PositionTokens :
        /\ firm_positions' =
              IF tok.ok /\ 0 <= tok.val /\ tok.val <= PosGrid
              THEN Append(firm_positions, tok.val)
              ELSE firm_positions
        /\ pc' = IF Len(firm_positions') < NUM_FIRMS
                 THEN "input_positions" ELSE "input_prices"
    /\ UNCHANGED <<firm_prices, transport_cost, num_simulations, num_consumers,
                   consumers, optVars, reportVars, simVars, fetchVars>>

InputPrice ==
    /\ pc = "input_prices"
    /\ \E tok \in PriceTokens :
        /\ firm_prices' =
              IF tok.ok /\ 0 <= tok.val
              THEN Append(firm_prices, tok.val)
              ELSE firm_prices
        /\ pc' = IF Len(firm_prices') < NUM_FIRMS
                 THEN "input_prices" ELSE "input_transport"
    /\ UNCHANGED <<firm_positions, transport_cost, num_simulations, num_consumers,
                   consumers, optVars, reportVars, simVars, fetchVars>>

InputTransport ==
    /\ pc = "input_transport"
    /\ \E tok \in TransportTokens :
        IF tok.ok
        THEN transport_cost' = tok.val /\ pc' = "input_simulations"
        ELSE transport_cost' = transport_cost /\ pc' = "ValueError"
    /\ UNCHANGED <<firm_positions, firm_prices, num_simulations, num_consumers,
                   consumers, optVars, reportVars, simVars, fetchVars>>

InputSimulations ==
    /\ pc = "input_simulations"
    /\ \E tok \in SimulationTokens :
        IF tok.ok
        THEN num_simulations' = tok.val /\ pc' = "input_consumers"
        ELSE num_simulations' = num_simulations /\ pc' = "ValueError"
    /\ UNCHANGED <<firm_positions, firm_prices, transport_cost, num_consumers,
                   consumers, optVars, reportVars, simVars, fetchVars>>

InputConsumers ==
    /\ pc = "input_consumers"
    /\ \E tok \in ConsumerTokens :
        IF tok.ok
        THEN /\ num_consumers' = tok.val
             /\ pc' = IF tok.val > 0 THEN "generate" ELSE "input_consumers"
        ELSE num_consumers' = num_consumers /\ pc' = "ValueError"
    /\ UNCHANGED <<firm_positions, firm_prices, transport_cost, num_simulations,
                   consumers, optVars, reportVars, simVars, fetchVars>>

\* generate_consumers(num_consumers) and its call at line 59
GenerateConsumers ==
    /\ pc = "generate"
    /\ consumers' \in SeqsOfLen(UniformPositions, num_consumers)
    /\ pc' = "optimize"
    /\ UNCHANGED <<firm_positions, firm_prices, transport_cost, num_simulations,
                   num_consumers, optVars, reportVars, simVars, fetchVars>>

\* ------------------------------------- monte_carlo_optimization (lines 81-101)
\* one pass of the for loop; all_profits[2] raises IndexError on a short list
OptTrial ==
    /\ pc = "optimize"
    /\ HasNextTrial(simulation, num_simulations)
    /\ \E p \in UniformPositions, q \in UniformPrices :
        LET cat_positions == ListConcat(firm_positions, <<p>>)
            cat_prices == ListConcat(firm_prices, <<q>>)
            test_positions == cat_positions.result
            test_prices == cat_prices.result
            all_profits == calculate_firm_profit(test_positions, test_prices,
                                                 consumers, transport_cost)
        IN  /\ simulation' = simulation + 1
            /\ new_position' = p
            /\ new_price' = q
            /\ firm_positions' = cat_positions.left
            /\ firm_prices' = cat_prices.left
            /\ IF ENTRANT_INDEX < Len(all_profits)
               THEN /\ new_firm_profit' = ListGet(all_profits, ENTRANT_INDEX)
                    /\ trials' = Append(trials, <<p, q, new_firm_profit'>>)
                    /\ IF Improves(new_firm_profit', best_profit)
                       THEN /\ best_profit' = new_firm_profit'
                            /\ best_position' = p
                            /\ best_price' = q
                       ELSE UNCHANGED <<best_profit, best_position, best_price>>
                    /\ pc' = "optimize"
               ELSE /\ pc' = "IndexError"
                    /\ UNCHANGED <<new_firm_profit, trials, best_profit,
                                   best_position, best_price>>
    /\ UNCHANGED <<transport_cost, num_simulations, num_consumers, consumers,
                   optimal, reportVars, simVars, fetchVars>>

\* line 101, and the unpacking at line 105
OptReturn ==
    /\ pc = "optimize"
    /\ ~HasNextTrial(simulation, num_simulations)
    /\ optimal' = <<best_position, best_price, best_profit>>
    /\ pc' = "returned"
    /\ UNCHANGED <<inputVars, best_profit, best_position, best_price,
                   new_position, new_price, new_firm_profit, simulation, trials,
                   reportVars, simVars, fetchVars>>

\* lines 106-117
Report ==
    /\ pc = "returned"
    /\ LET final_positions == ListConcat(firm_positions, <<optimal[1]>>).result
           final_prices == ListConcat(firm_prices, <<optimal[2]>>).result
       IN  /\ customers_per_firm' =
                 simulate_market(consumers, final_positions, final_prices,
                                 transport_cost)
           /\ firm_profit' =
                 calculate_firm_profit(final_positions, final_prices, consumers,
                                       transport_cost)
           /\ pc' = IF ENTRANT_INDEX < Len(firm_profit') THEN "done" ELSE "IndexError"
    /\ UNCHANGED <<inputVars, optVars, simVars, fetchVars>>

Next ==
    \/ InputPosition
    \/ InputPrice
    \/ InputTransport
    \/ InputSimulations
    \/ InputConsumers
    \/ GenerateConsumers
    \/ OptTrial
    \/ OptReturn
    \/ Report

Spec == Init /\ [][Next]_vars

\* ----------------------- monte_carlo_optimization called on arbitrary arguments
\* firms (position, price) a caller may pass: either end of the line, at a
\* price at or just above the entrant's lowest
ArgFirms == {<<0, PRICE_LOW>>, <<PosGrid, PRICE_LOW + 1>>}

ArgTransport == {1, 16}

FirmLists == UNION {SeqsOfLen(ArgFirms, n) : n \in 0..MaxFirms}

Unzip(firms, k) == [i \in 1..Len(firms) |-> firms[i][k]]

IsSorted(s) == \A i \in 1..(Len(s) - 1) : s[i] <= s[i + 1]

\* consumer populations up to order: the counts do not depend on the order
SortedConsumers ==
    {cs \in UNION {SeqsOfLen(UniformPositions, n) : n \in 0..MaxConsumers} :
        IsSorted(cs)}

InitOpt ==
    /\ \E firms \in FirmLists :
        /\ firm_positions = Unzip(firms, 1)
        /\ firm_prices = Unzip(firms, 2)
    /\ transport_cost \in ArgTransport
    /\ num_simulations \in -1..MaxSims
    /\ consumers \in SortedConsumers
    /\ num_consumers = Len(consumers)
    /\ best_profit = BestProfitInit
    /\ best_position = 0
    /\ best_price = 0
    /\ new_position = 0
    /\ new_price = 0
    /\ new_firm_profit = 0
    /\ simulation = 0
    /\ optimal = <<>>
    /\ customers_per_firm = <<>>
    /\ firm_profit = <<>>
    /\ firm_customers = <<>>
    /\ consumer_no = 0
    /\ chosen_firm = 0
    /\ trials = <<>>
    /\ FetchNotCalled
    /\ pc = "optimize"

NextOpt ==
    \/ OptTrial
    \/ OptReturn

SpecOpt == InitOpt /\ [][NextOpt]_vars

\* --------------------------------- simulate_market, one consumer at a time
\* line 63
MarketFirms == UniformPositions \X {PRICE_LOW, PRICE_LOW + 1}

MarketFirmLists == UNION {SeqsOfLen(MarketFirms, n) : n \in 1..MaxFirms}

MarketTransport == {0 - 1, 0, 1}

InitMarket ==
    /\ \E firms \in MarketFirmLists :
        /\ firm_positions = Unzip(firms, 1)
        /\ firm_prices = Unzip(firms, 2)
    /\ transport_cost \in MarketTransport
    /\ consumers \in UNION {SeqsOfLen(UniformPositions, n) : n \in 0..MaxConsumers}
    /\ num_consumers = Len(consumers)
    /\ num_simulations = 0
    /\ best_profit = BestProfitInit
    /\ best_position = 0
    /\ best_price = 0
    /\ new_position = 0
    /\ new_price = 0
    /\ new_firm_profit = 0
    /\ simulation = 0
    /\ optimal = <<>>
    /\ customers_per_firm = <<>>
    /\ firm_profit = <<>>
    /\ firm_customers = ZeroCounts(firm_positions)
    /\ consumer_no = 0
    /\ chosen_firm = 0
    /\ trials = <<>>
    /\ FetchNotCalled
    /\ pc = "simulate"

\* lines 65-67, one consumer
SimStep ==
    /\ pc = "simulate"
    /\ consumer_no < Len(consumers)
    /\ LET consumer_pos == consumers[consumer_no + 1]
       IN  /\ chosen_firm' = consumer_choice(consumer_pos, firm_positions,
                                             firm_prices, transport_cost)
           /\ firm_customers' = Increment(firm_customers, chosen_firm')
    /\ consumer_no' = consumer_no + 1
    /\ UNCHANGED <<inputVars, optVars, reportVars, fetchVars, pc>>

\* line 68
SimReturn ==
    /\ pc = "simulate"
    /\ consumer_no = Len(consumers)
    /\ customers_per_firm' = firm_customers
    /\ pc' = "simulated"
    /\ UNCHANGED <<inputVars, optVars, firm_profit, simVars, fetchVars>>

NextMarket ==
    \/ SimStep
    \/ SimReturn

SpecMarket == InitMarket /\ [][NextMarket]_vars

\* ================================================================ claims
RECURSIVE SumSeq(_)
SumSeq(s) == IF s = <<>> THEN 0 ELSE Head(s) + SumSeq(Tail(s))

FirmIndexes == 0..(Len(firm_positions) - 1)

\* the delivered cost of firm j to the consumer simulate_market handled last
LastCost(j) ==
    TotalCost(consumers[consumer_no], ListGet(firm_positions, j),
              ListGet(firm_prices, j), transport_cost)

\* C1: the firm chosen for a consumer has a delivered cost no higher than any
\* other firm's, and every firm of lower index has a strictly higher cost
C1_ChoiceIsLowestIndexMinimum ==
    consumer_no > 0 =>
        /\ chosen_firm \in FirmIndexes
        /\ \A j \in FirmIndexes : LastCost(chosen_firm) <= LastCost(j)
        /\ \A j \in FirmIndexes : j < chosen_firm => LastCost(j) > LastCost(chosen_firm)

\* a tie between the chosen firm, which is not the first, and a later firm
C1_Witness ==
    /\ consumer_no > 0
    /\ chosen_firm > 0
    /\ \E j \in FirmIndexes : j > chosen_firm /\ LastCost(j) = LastCost(chosen_firm)

\* C2: simulate_market keeps one non-negative count per firm; after each
\* consumer the counts sum to the consumers handled so far, and the list
\* returned sums to the number of consumers
C2_CountsConserveConsumers ==
    /\ Len(firm_customers) = Len(firm_positions)
    /\ \A i \in 1..Len(firm_customers) : firm_customers[i] >= 0
    /\ SumSeq(firm_customers) = consumer_no
    /\ pc = "simulated" =>
          /\ Len(customers_per_firm) = Len(firm_positions)
          /\ \A i \in 1..Len(customers_per_firm) : customers_per_firm[i] >= 0
          /\ SumSeq(customers_per_firm) = Len(consumers)

C2_Witness ==
    /\ pc = "simulated"
    /\ Len(consumers) = MaxConsumers
    /\ Len(firm_positions) > 1
    /\ \E i \in 1..Len(customers_per_firm) : customers_per_firm[i] > 1
    /\ \E i \in 1..Len(customers_per_firm) : customers_per_firm[i] = 0

\* C3: best_profit is never negative during the trial loop, and neither is
\* the profit monte_carlo_optimization returns
C3_ProfitNeverNegative ==
    /\ best_profit >= 0
    /\ pc = "returned" => optimal[3] >= 0

\* trials were run, none beat the zero baseline
C3_Witness ==
    /\ pc = "returned"
    /\ Len(trials) > 1
    /\ optimal[3] = 0

\* C4: with num_simulations <= 0 no trial is run, nothing is raised and the
\* triple returned is (0, 0, 0)
C4_NoTrialsReturnsBaseline ==
    num_simulations <= 0 =>
        /\ pc # "IndexError"
        /\ simulation = 0
        /\ trials = <<>>
        /\ pc = "returned" => optimal = <<0, 0, 0>>

C4_Witness ==
    /\ pc = "returned"
    /\ num_simulations < 0
    /\ firm_positions = <<>>
    /\ consumers # <<>>

\* C5: best_profit never decreases from one trial to the next, so the run of
\* N+k trials over the same samples returns no less than the run of N trials
C5_BestProfitNeverDecreases == [][best_profit' >= best_profit]_vars

\* a later trial earned less than an earlier one and the earlier one is kept
C5_Witness ==
    /\ Len(trials) > 1
    /\ trials[2][3] < trials[1][3]
    /\ best_profit = trials[1][3]

\* C6: with no existing firm the optimizer does not fail and every trial
\* values its candidate as the monopolist that receives every consumer
C6_EmptyFirmsAccepted ==
    firm_positions = <<>> =>
        /\ pc # "IndexError"
        /\ simulation > 0 => new_firm_profit = Len(consumers) * new_price

\* the customers and profit of the firm the last trial appended
CandidateCustomers ==
    simulate_market(consumers, Append(firm_positions, new_position),
                    Append(firm_prices, new_price),
                    transport_cost)[Len(firm_positions) + 1]

\* C7: for any number of existing firms the profit a trial compares with
\* best_profit is the appended candidate's: its customers times its price
C7_ComparedProfitIsCandidates ==
    (pc \in {"optimize", "returned"} /\ simulation > 0) =>
        new_firm_profit = CandidateCustomers * new_price

\* C8: the configuration that reaches the simulator has every position in
\* [0,1], every price non-negative and a non-negative transport cost
C8_ConfigurationInRange ==
    pc \in {"optimize", "returned", "done"} =>
        /\ \A i \in 1..Len(firm_positions) :
              0 <= firm_positions[i] /\ firm_positions[i] <= PosGrid
        /\ \A i \in 1..Len(firm_prices) : firm_prices[i] >= 0
        /\ \A i \in 1..Len(consumers) : 0 <= consumers[i] /\ consumers[i] <= PosGrid
        /\ simulation > 0 =>
              0 <= new_position /\ new_position <= PosGrid /\ new_price >= 0
        /\ transport_cost >= 0

RECURSIVE MaxProfit(_)
MaxProfit(ts) ==
    IF Len(ts) = 1 THEN ts[1][3]
    ELSE LET m == MaxProfit(Tail(ts)) IN IF ts[1][3] >= m THEN ts[1][3] ELSE m

EarliestWith(ts, profit) ==
    CHOOSE k \in 1..Len(ts) :
        ts[k][3] = profit /\ \A j \in 1..(k - 1) : ts[j][3] # profit

\* C9: a positive best triple is that of the earliest trial whose profit is
\* the maximum over all trials so far; so is the triple returned
C9_EarliestBestTrialKept ==
    best_profit > 0 =>
        /\ trials # <<>>
        /\ LET m == MaxProfit(trials)
               k == EarliestWith(trials, m)
           IN  /\ <<best_position, best_price, best_profit>> =
                     <<trials[k][1], trials[k][2], m>>
               /\ pc = "returned" => optimal = <<trials[k][1], trials[k][2], m>>

\* two different candidates earned the profit returned
C9_Witness ==
    /\ pc = "returned"
    /\ optimal[3] > 0
    /\ \E i, j \in 1..Len(trials) :
          /\ i < j
          /\ trials[i][3] = optimal[3]
          /\ trials[j][3] = optimal[3]
          /\ <<trials[i][1], trials[i][2]>> # <<trials[j][1], trials[j][2]>>

\* C10: no step of the optimizer changes the existing positions, the
\* existing prices or the consumers
C10_InputsNeverMutated ==
    [][/\ firm_positions' = firm_positions
       /\ firm_prices' = firm_prices
       /\ consumers' = consumers]_vars

C10_Witness ==
    /\ pc = "returned"
    /\ simulation > 1
    /\ Len(firm_positions) = NUM_FIRMS
    /\ consumers # <<>>
    /\ optimal[3] > 0

\* ------------------------------ fetch_multiple_months (data_fetcher.py 44-80)
\* timedelta(days=n)
Days(n) == n * TicksPerDay

\* strftime('%Y%m%d'): the day, the time of day dropped
strftime(t) == t \div TicksPerDay

Min2(a, b) == IF a <= b THEN a ELSE b

\* variant of ChunkEnd: the chunk is not cut at end_date
ChunkEndUnclamped(start, end) == start + Days(CHUNK_DAYS)

\* line 54
ChunkEnd(start, end) == Min2(start + Days(CHUNK_DAYS), end)

\* line 70
NextStart(end) == end + Days(STEP_DAYS)

\* what one HTTP request may come to: a 200 with a ZIP that parses, a 200
\* with a body that is no ZIP, a 200 with an empty body, another status, or
\* requests.get raising
FetchOutcomes == {"zip", "garbage", "empty", "http_error", "connection_error"}

\* fetch_caiso_prices: response.content on a 200, None otherwise
fetch_caiso_prices(outcome) == IF outcome = "http_error" THEN "None" ELSE outcome

\* if data: None and b'' are false
Truthy(data) == data \notin {"None", "empty"}

\* extract_and_parse_zip returns a DataFrame or raises (zipfile.BadZipFile)
ParsesAsZip(data) == data = "zip"

\* the datetimes a caller may pass: start_date on day 0 at any time of day,
\* end_date later by up to MaxSpanDays
InitFetch ==
    /\ firm_positions = <<>>
    /\ firm_prices = <<>>
    /\ transport_cost = 0
    /\ num_simulations = 0
    /\ num_consumers = 0
    /\ consumers = <<>>
    /\ best_profit = BestProfitInit
    /\ best_position = 0
    /\ best_price = 0
    /\ new_position = 0
    /\ new_price = 0
    /\ new_firm_profit = 0
    /\ simulation = 0
    /\ optimal = <<>>
    /\ customers_per_firm = <<>>
    /\ firm_profit = <<>>
    /\ firm_customers = <<>>
    /\ consumer_no = 0
    /\ chosen_firm = 0
    /\ trials = <<>>
    /\ start_date \in 0..(TicksPerDay - 1)
    /\ end_date \in (start_date + 1)..(start_date + Days(MaxSpanDays))
    /\ current_start = start_date
    /\ current_end = 0
    /\ chunk_num = 0
    /\ all_data = <<>>
    /\ df = NoReturn
    /\ requests = <<>>
    /\ pc = "fetch_loop"

\* one pass of the while loop, lines 53-74
FetchChunk ==
    /\ pc = "fetch_loop"
    /\ current_start < end_date
    /\ chunk_num' = chunk_num + 1
    /\ current_end' = ChunkEnd(current_start, end_date)
    /\ \E outcome \in FetchOutcomes :
        LET data == fetch_caiso_prices(outcome)
        IN  /\ requests' = Append(requests,
                    [start |-> current_start, end |-> current_end',
                     start_str |-> strftime(current_start),
                     end_str |-> strftime(current_end'),
                     outcome |-> outcome])
            /\ IF outcome = "connection_error" \/ (Truthy(data) /\ ~ParsesAsZip(data))
               THEN /\ pc' = "fetch_raised"
                    /\ UNCHANGED <<all_data, current_start>>
               ELSE /\ all_data' = IF Truthy(data)
                                   THEN Append(all_data, chunk_num')
                                   ELSE all_data
                    /\ current_start' = NextStart(current_end')
                    /\ pc' = "fetch_loop"
    /\ UNCHANGED <<inputVars, optVars, reportVars, simVars, start_date, end_date, df>>

\* lines 75-80
FetchReturn ==
    /\ pc = "fetch_loop"
    /\ ~(current_start < end_date)
    /\ df' = IF all_data # <<>>
             THEN [kind |-> "DataFrame", chunks |-> all_data]
             ELSE [kind |-> "None", chunks |-> <<>>]
    /\ pc' = "fetch_returned"
    /\ UNCHANGED <<inputVars, optVars, reportVars, simVars, start_date, end_date,
                   current_start, current_end, chunk_num, all_data, requests>>

NextFetch ==
    \/ FetchChunk
    \/ FetchReturn

\* the loop is sequential code: while a step is possible, one is taken
\* (every HTTP request is taken to come back, with a response or an exception)
SpecFetch == InitFetch /\ [][NextFetch]_vars /\ WF_vars(NextFetch)

Succeeded(r) == r.outcome = "zip"

Failed(r) == r.outcome \in {"empty", "http_error"}

\* the safety part of C11: what holds of the requests made so far and of the
\* value returned
C11_WindowsAndResult ==
    /\ Len(requests) = chunk_num
    /\ chunk_num > 0 => Days(CHUNK_DAYS + STEP_DAYS) * (chunk_num - 1) < end_date - start_date
    /\ \A k \in 1..Len(requests) :
          /\ requests[k].start < requests[k].end
          /\ requests[k].end - requests[k].start <= Days(CHUNK_DAYS)
          /\ requests[k].end <= end_date
          /\ requests[k].start_str <= requests[k].end_str
          /\ requests[k].end_str - requests[k].start_str <= CHUNK_DAYS
          /\ requests[k].end_str <= strftime(end_date)
    /\ \A k \in 1..(Len(requests) - 1) :
          /\ requests[k + 1].start > requests[k].end
          /\ requests[k + 1].start_str > requests[k].end_str
          /\ Failed(requests[k]) \/ Succeeded(requests[k])
    /\ all_data = SelectSeq([k \in 1..Len(requests) |-> k],
                            LAMBDA k : Succeeded(requests[k]))
    /\ pc = "fetch_returned" =>
          /\ current_start >= end_date
          /\ df.kind \in {"None", "DataFrame"}
          /\ df.kind = "None" <=> \A k \in 1..Len(requests) : ~Succeeded(requests[k])

FetchFinished == pc \in {"fetch_returned", "fetch_raised"}

\* C11: for start_date < end_date fetch_multiple_months ends after finitely
\* many requests (at most one per 31 days of the range); the windows
\* requested are strictly increasing and disjoint, span at most 30 days and
\* never end after end_date; a failed chunk is followed by the next window,
\* never requested again; and None is returned exactly when no chunk succeeded
C11_FetchTerminatesWithDisjointWindows ==
    /\ []C11_WindowsAndResult
    /\ <>FetchFinished

\* three chunks, the second failed and skipped, the last cut at end_date
C11_Witness ==
    /\ pc = "fetch_returned"
    /\ Len(requests) = 3
    /\ Succeeded(requests[1])
    /\ Failed(requests[2])
    /\ Succeeded(requests[3])
    /\ requests[3].end = end_date
    /\ requests[3].end - requests[3].start < Days(CHUNK_DAYS)
    /\ df = [kind |-> "DataFrame", chunks |-> <<1, 3>>]

====
